---- MODULE Spec2Model ----
(***************************************************************************)
(* Task completion and dispatch coordinator of the API server              *)
(* (oldEndTask, oldStartTask, taskFinished, getNextDistroTask,             *)
(* markHostRunningTaskFinished).  Every request is a process with a        *)
(* program counter; one action is one step of a handler between two        *)
(* accesses to shared state (the task, host and queue documents and the    *)
(* global lock).                                                           *)
(***************************************************************************)
EXTENDS Integers, Sequences, FiniteSets, TLC

\* ------------------------------------------------------------------ bounds
\* Number of concurrent agent requests served by the API server.
NReq == 2
\* Largest number of tasks initially waiting in the distro queue.
MaxQueue == 2

\* ------------------------------------------------------------------ domains
Requests == 1..NReq
Origins == {"o1", "o2"}
Hosts == {"H1", "H2"}
\* the empty task identifier ""
NoTask == ""
NoHost == ""
\* tasks that are running on a host when the requests arrive
RunTasks == {"T1", "T2"}
QueueIds == <<"Q1", "Q2", "Q3", "Q4">>
QueueTasks == {QueueIds[i] : i \in 1..MaxQueue}
Tasks == RunTasks \cup QueueTasks
Revisions == {"r1", "r2"}
\* the dispatch secret of a task document
NoSecret == <<>>
Secret(t) == <<"secret", t>>

\* evergreen.TaskSucceeded, TaskFailed, TaskUndispatched and any other string
EndStatuses == {"succeeded", "failed", "undispatched"}
Terminal == {"succeeded", "failed"}
\* evergreen.HostDecommissioned, evergreen.HostQuarantined
Unhealthy == {"decommissioned", "quarantined"}
Scopes == Origins \X RunTasks

VARIABLES
    taskStatus,    \* task document: status
    hostStatus,    \* host document: status
    hostRunning,   \* host document: running_task
    hostRevision,  \* host document: agent_revision
    hostPid,       \* host document: pid of the agent
    builtRevision, \* content of the version file of the built agent
    taskQueue,     \* the distro's task queue document: [exists, items]
    globalLock,    \* per scope, the requests holding the lock
    req,           \* per request: its position and local variables
    hostSecret,    \* host document: secret
    gateway        \* per host: the StartAgentOnHost call provisioning it

vars == <<taskStatus, hostStatus, hostRunning, hostRevision, hostPid,
          builtRevision, taskQueue, globalLock, req, hostSecret, gateway>>

\* http status codes
StatusOK == 200
StatusBadRequest == 400
StatusNotFound == 404
StatusInternalServerError == 500

\* apimodels.TaskEndResponse, with the status code it is written with and the
\* cause put in its message
Response(code, runNext, taskId, secret, msg) ==
    [code |-> code, runNext |-> runNext, taskId |-> taskId, secret |-> secret,
     msg |-> msg]
ErrorResponse(code, msg) == Response(code, FALSE, NoTask, NoSecret, msg)
NoResponse == ErrorResponse(0, "")

IdleReq ==
    [pc |-> "idle", kind |-> "", origin |-> "", task |-> NoTask,
     status |-> "", host |-> NoHost, hostRev |-> "", next |-> NoTask, out |-> NoResponse,
     resps |-> <<>>, wrote |-> FALSE, marked |-> FALSE, locked |-> FALSE,
     cost |-> "none"]

ScopeOf(r) == <<req[r].origin, req[r].task>>

\* the secrets h.CreateSecret can generate; "" is the host without a secret
HostSecrets == {"s1", "s2"}
\* the remote operations of the provisioning protocol and the recording step
RemoteOps == {"mkdir", "scp", "launch"}
\* results of util.RunFunctionWithTimeout(cmd.Run, timeout)
Outcomes == {"ok", "err", "timeout"}

\* one StartAgentOnHost call: hostObj.Secret, the revisions read around the
\* transfer, the steps it ran with their results, the commands it stopped,
\* the secret on the agent's command line, the error it returned
IdleCall ==
    [pc |-> "idle", secret |-> "", pre |-> "", post |-> "", ops |-> <<>>,
     stopped |-> {}, launchSecret |-> "", err |-> ""]

Init ==
    /\ taskStatus = [t \in Tasks |-> IF t \in QueueTasks THEN "undispatched"
                                     ELSE IF t = "T1" THEN "dispatched"
                                     ELSE "started"]
    /\ hostStatus \in
         {f \in [Hosts -> {"running"} \cup Unhealthy] : f["H2"] = "running"}
    /\ hostRunning = [h \in Hosts |-> IF h = "H1" THEN "T1" ELSE "T2"]
    /\ hostRevision = [h \in Hosts |-> "r1"]
    /\ hostPid = [h \in Hosts |-> FALSE]
    /\ builtRevision \in Revisions
    /\ taskQueue \in
         {[exists |-> FALSE, items |-> <<>>]} \cup
         {[exists |-> TRUE, items |-> SubSeq(QueueIds, 1, n)] : n \in 0..MaxQueue}
    /\ globalLock = [s \in Scopes |-> {}]
    /\ req = [r \in Requests |-> IdleReq]
    /\ hostSecret = [h \in Hosts |-> ""]
    /\ gateway = [h \in Hosts |-> IdleCall]

\* ------------------------------------------------------------ lock manager
getGlobalLock(lock, r, s) == [lock EXCEPT ![s] = {r}]
releaseGlobalLock(lock, r, s) == [lock EXCEPT ![s] = @ \ {r}]
LockFree(s) == globalLock[s] = {}

\* as.WriteJSON / as.LoggedError / http.Error: one more response written
WriteResponse(q, resp) == [q EXCEPT !.resps = Append(@, resp)]

\* mutant: the release is not deferred, so no return path releases the lock
DeferredReleaseNone(r) == globalLock

\* the handler returns: the deferred releaseGlobalLock runs if it was registered
DeferredRelease(r) ==
    IF req[r].locked THEN releaseGlobalLock(globalLock, r, ScopeOf(r))
    ELSE globalLock

\* write a response and return from the handler; the locals that no later
\* statement reads end with it
Return(r, q, resp) ==
    /\ req' = [req EXCEPT ![r] =
                 [WriteResponse(q, resp) EXCEPT !.pc = "done", !.locked = FALSE,
                                                !.out = NoResponse,
                                                !.hostRev = "", !.status = ""]]
    /\ globalLock' = DeferredRelease(r)

Stores == <<taskStatus, hostStatus, hostRunning, hostRevision, hostPid,
            builtRevision, taskQueue>>

\* ------------------------------------------------------ stores (documents)
\* mutant: the reported status replaces whatever status the task has
MarkEndOverwrite(ts, t, status) ==
    IF status \notin Terminal THEN ts ELSE [ts EXCEPT ![t] = status]

\* model.MarkEnd: persist the reported status; a terminal status is kept, an
\* abort (undispatched) is left to SetActiveState
MarkEnd(ts, t, status) ==
    IF ts[t] \in Terminal \cup {"inactive"} \/ status \notin Terminal THEN ts
    ELSE [ts EXCEPT ![t] = status]

\* model.SetActiveState(t, "", false): an aborted task becomes inactive
SetActiveState(ts, t) ==
    IF ts[t] \in Terminal THEN ts ELSE [ts EXCEPT ![t] = "inactive"]

\* model.MarkStart
MarkStart(ts, t) ==
    IF ts[t] \in Terminal \cup {"inactive"} THEN ts
    ELSE [ts EXCEPT ![t] = "started"]

\* host.FindOne(host.ByRunningTaskId(t)): the hosts the query can return
HostsRunning(t) == {h \in Hosts : hostRunning[h] = t}

\* h.ClearRunningTask(prev, now)
ClearRunningTask(hr, h, err) ==
    IF err THEN hr ELSE [hr EXCEPT ![h] = NoTask]

\* h.UpdateRunningTask(prev, new, now): the host running prev now runs new;
\* ok is false when no document matches
UpdateRunningTask(hr, h, prev, new, err) ==
    IF err \/ hr[h] # prev THEN hr ELSE [hr EXCEPT ![h] = new]

\* markHostRunningTaskFinished(h, t, newTaskId); both errors are only logged
markHostRunningTaskFinished(hr, h, t, new, clearErr, updErr) ==
    IF new = NoTask /\ clearErr THEN hr
    ELSE LET cleared == IF new = NoTask THEN ClearRunningTask(hr, h, FALSE)
                        ELSE hr
         IN  UpdateRunningTask(cleared, h, t, new, updErr)

\* taskrunner.DispatchTaskForHost(queue, host): pop the next task and mark it
\* dispatched, in one step; nil when the queue is empty or nothing is eligible
DispatchTaskForHost(q, eligible) ==
    IF q.items = <<>> \/ ~eligible THEN [task |-> NoTask, queue |-> q]
    ELSE [task |-> Head(q.items),
          queue |-> [q EXCEPT !.items = Tail(@)]]

\* --------------------------------------------------------------- oldEndTask
\* mutant: the check of the finishing status is missing
ReceiveEndNoStatusCheck(r) ==
    /\ req[r].pc = "idle"
    /\ \E o \in Origins, t \in RunTasks, st \in EndStatuses \cup {"bogus"},
          bodyErr \in BOOLEAN, ref \in {"found", "nil", "error"},
          projErr \in BOOLEAN :
         LET q0 == [req[r] EXCEPT !.kind = "end", !.origin = o, !.task = t,
                                  !.status = st]
             q1 == IF ref = "error"
                   THEN WriteResponse(q0, ErrorResponse(StatusInternalServerError,
                                                        "project_ref_error"))
                   ELSE q0
         IN  IF bodyErr
             THEN Return(r, q0, ErrorResponse(StatusBadRequest, "bad_body"))
             ELSE IF ref # "found"
             THEN Return(r, q1, ErrorResponse(StatusNotFound, "empty_project_ref"))
             ELSE IF projErr
             THEN Return(r, q1, ErrorResponse(StatusInternalServerError,
                                              "project_error"))
             ELSE /\ req' = [req EXCEPT ![r] = [q1 EXCEPT !.pc = "lock"]]
                  /\ UNCHANGED globalLock
    /\ UNCHANGED Stores

\* read the request, validate the status, load the project
ReceiveEnd(r) ==
    /\ req[r].pc = "idle"
    /\ \E o \in Origins, t \in RunTasks, st \in EndStatuses \cup {"bogus"},
          bodyErr \in BOOLEAN, ref \in {"found", "nil", "error"},
          projErr \in BOOLEAN :
         LET q0 == [req[r] EXCEPT !.kind = "end", !.origin = o, !.task = t,
                                  !.status = st]
             \* LoggedError without a return when the lookup failed
             q1 == IF ref = "error"
                   THEN WriteResponse(q0, ErrorResponse(StatusInternalServerError,
                                                        "project_ref_error"))
                   ELSE q0
         IN  IF bodyErr
             THEN Return(r, q0, ErrorResponse(StatusBadRequest, "bad_body"))
             ELSE IF st \notin EndStatuses
             THEN Return(r, q0, ErrorResponse(StatusBadRequest, "invalid_status"))
             ELSE IF ref # "found"
             THEN Return(r, q1, ErrorResponse(StatusNotFound, "empty_project_ref"))
             ELSE IF projErr
             THEN Return(r, q1, ErrorResponse(StatusInternalServerError,
                                              "project_error"))
             ELSE /\ req' = [req EXCEPT ![r] = [q1 EXCEPT !.pc = "lock"]]
                  /\ UNCHANGED globalLock
    /\ UNCHANGED Stores

\* getGlobalLock succeeded; the release is deferred
EndAcquire(r) ==
    /\ req[r].pc = "lock" /\ req[r].kind = "end"
    /\ LockFree(ScopeOf(r))
    /\ globalLock' = getGlobalLock(globalLock, r, ScopeOf(r))
    /\ req' = [req EXCEPT ![r].pc = "markEnd", ![r].locked = TRUE]
    /\ UNCHANGED Stores

\* mutant: the error is written but the return is missing, so the handler
\* goes on to the protected section without the lock
EndLockTimeoutNoReturn(r) ==
    /\ req[r].pc = "lock" /\ req[r].kind = "end"
    /\ ~LockFree(ScopeOf(r))
    /\ req' = [req EXCEPT ![r] =
                 [WriteResponse(req[r], ErrorResponse(StatusInternalServerError,
                                                      "lock_timeout"))
                    EXCEPT !.pc = "markEnd"]]
    /\ UNCHANGED <<Stores, globalLock>>

\* getGlobalLock timed out
EndLockTimeout(r) ==
    /\ req[r].pc = "lock" /\ req[r].kind = "end"
    /\ ~LockFree(ScopeOf(r))
    /\ Return(r, req[r], ErrorResponse(StatusInternalServerError, "lock_timeout"))
    /\ UNCHANGED Stores

\* model.MarkEnd, then the alert triggers (no state of this model)
EndMarkEnd(r) ==
    /\ req[r].pc = "markEnd"
    /\ \E err \in BOOLEAN :
         IF err
         THEN /\ Return(r, req[r], ErrorResponse(StatusInternalServerError,
                                                 "mark_end_error"))
              /\ UNCHANGED taskStatus
         ELSE /\ taskStatus' = MarkEnd(taskStatus, req[r].task, req[r].status)
              /\ req' = [req EXCEPT
                   ![r].pc = IF req[r].status = "undispatched" THEN "setActive"
                             ELSE "findHost",
                   ![r].status = "",
                   ![r].marked = TRUE, ![r].wrote = TRUE]
              /\ UNCHANGED globalLock
    /\ UNCHANGED <<hostStatus, hostRunning, hostRevision, hostPid,
                   builtRevision, taskQueue>>

\* the task was aborted: model.SetActiveState
EndSetActive(r) ==
    /\ req[r].pc = "setActive"
    /\ \E err \in BOOLEAN :
         IF err
         THEN /\ Return(r, req[r], ErrorResponse(StatusInternalServerError,
                                                 "deactivate_error"))
              /\ UNCHANGED taskStatus
         ELSE /\ taskStatus' = SetActiveState(taskStatus, req[r].task)
              /\ req' = [req EXCEPT ![r].pc = "findHost"]
              /\ UNCHANGED globalLock
    /\ UNCHANGED <<hostStatus, hostRunning, hostRevision, hostPid,
                   builtRevision, taskQueue>>

\* ------------------------------------------------------------- taskFinished
\* a. host.FindOne(host.ByRunningTaskId(t.Id)) and the status of the host; for
\* a healthy host the goroutine of updateTaskCost is spawned
TaskFinishedFindHost(r) ==
    /\ req[r].pc = "findHost"
    /\ \/ /\ Return(r, req[r], ErrorResponse(StatusInternalServerError,
                                             "host_lookup_error"))
       \/ /\ HostsRunning(req[r].task) = {}
          /\ Return(r, req[r], ErrorResponse(StatusInternalServerError,
                                             "host_not_found"))
       \/ \E h \in HostsRunning(req[r].task) :
            /\ req' = [req EXCEPT
                 ![r].host = h,
                 ![r].hostRev = hostRevision[h],
                 ![r].next = NoTask,
                 ![r].out = IF hostStatus[h] \in Unhealthy
                            THEN ErrorResponse(StatusOK, "host_unhealthy")
                            ELSE NoResponse,
                 ![r].pc = IF hostStatus[h] \in Unhealthy THEN "markHost"
                           ELSE "revision",
                 ![r].cost = IF hostStatus[h] \in Unhealthy THEN "none"
                             ELSE "pending"]
            /\ UNCHANGED globalLock
    /\ UNCHANGED Stores

\* b. GetAgentRevision and the comparison with the host's revision
TaskFinishedRevision(r) ==
    /\ req[r].pc = "revision"
    /\ \E err \in BOOLEAN :
         req' = [req EXCEPT
           ![r].out = IF err
                      THEN ErrorResponse(StatusInternalServerError,
                                         "agent_revision_error")
                      ELSE IF req[r].hostRev # builtRevision
                      THEN ErrorResponse(StatusOK, "agent_needs_rebuild")
                      ELSE NoResponse,
           ![r].pc = IF err \/ req[r].hostRev # builtRevision THEN "markHost"
                     ELSE "dispatch"]
    /\ UNCHANGED <<Stores, globalLock>>

\* mutant: the head of the queue is read and returned but not dequeued
getNextDistroTaskPeek(q, findErr, dispatchErr, eligible) ==
    IF findErr THEN [err |-> "queue_lookup_error", task |-> NoTask, queue |-> q]
    ELSE IF ~q.exists THEN [err |-> "nil_queue", task |-> NoTask, queue |-> q]
    ELSE IF dispatchErr
    THEN [err |-> "dequeue_error", task |-> NoTask, queue |-> q]
    ELSE [err |-> "", task |-> DispatchTaskForHost(q, eligible).task,
          queue |-> q]

\* mutant: a failing dispatch has already removed the task from the queue
getNextDistroTaskDrop(q, findErr, dispatchErr, eligible) ==
    IF findErr THEN [err |-> "queue_lookup_error", task |-> NoTask, queue |-> q]
    ELSE IF ~q.exists THEN [err |-> "nil_queue", task |-> NoTask, queue |-> q]
    ELSE IF dispatchErr
    THEN [err |-> "dequeue_error", task |-> NoTask,
          queue |-> DispatchTaskForHost(q, eligible).queue]
    ELSE [err |-> ""] @@ DispatchTaskForHost(q, eligible)

\* getNextDistroTask(t, host): what it returns and the queue afterwards
getNextDistroTask(q, findErr, dispatchErr, eligible) ==
    IF findErr THEN [err |-> "queue_lookup_error", task |-> NoTask, queue |-> q]
    ELSE IF ~q.exists THEN [err |-> "nil_queue", task |-> NoTask, queue |-> q]
    ELSE IF dispatchErr
    THEN [err |-> "dequeue_error", task |-> NoTask, queue |-> q]
    ELSE [err |-> ""] @@ DispatchTaskForHost(q, eligible)

\* the response taskFinished prepares for the result of getNextDistroTask
NextTaskResponse(got) ==
    IF got.err # "" THEN ErrorResponse(StatusOK, got.err)
    ELSE IF got.task = NoTask THEN ErrorResponse(StatusOK, "no_next_task")
    ELSE Response(StatusOK, TRUE, got.task, Secret(got.task), "proceed")

\* c. dispatch the next task of the distro queue
TaskFinishedDispatch(r) ==
    /\ req[r].pc = "dispatch"
    /\ \E findErr \in BOOLEAN, dispatchErr \in BOOLEAN, eligible \in BOOLEAN :
         LET got == getNextDistroTask(taskQueue, findErr, dispatchErr, eligible)
         IN  /\ taskQueue' = got.queue
             /\ taskStatus' = IF got.task = NoTask THEN taskStatus
                              ELSE [taskStatus EXCEPT ![got.task] = "dispatched"]
             /\ req' = [req EXCEPT
                  ![r].hostRev = "",
                  ![r].next = got.task,
                  ![r].out = NextTaskResponse(got),
                  ![r].wrote = @ \/ got.task # NoTask,
                  ![r].pc = "markHost"]
    /\ UNCHANGED <<hostStatus, hostRunning, hostRevision, hostPid,
                   builtRevision, globalLock>>

\* markHostRunningTaskFinished, then the response is written and the handler
\* returns
TaskFinishedMarkHost(r) ==
    /\ req[r].pc = "markHost"
    /\ \E clearErr \in BOOLEAN, updErr \in BOOLEAN :
         hostRunning' = markHostRunningTaskFinished(
                            hostRunning, req[r].host, req[r].task, req[r].next,
                            clearErr, updErr)
    /\ Return(r, [req[r] EXCEPT !.wrote = TRUE], req[r].out)
    /\ UNCHANGED <<taskStatus, hostStatus, hostRevision, hostPid,
                   builtRevision, taskQueue>>

\* ------------------------------------------------------------- oldStartTask
ReceiveStart(r) ==
    /\ req[r].pc = "idle"
    /\ \E o \in Origins, t \in RunTasks :
         req' = [req EXCEPT ![r].kind = "start", ![r].origin = o,
                            ![r].task = t, ![r].pc = "lock"]
    /\ UNCHANGED <<Stores, globalLock>>

StartAcquire(r) ==
    /\ req[r].pc = "lock" /\ req[r].kind = "start"
    /\ LockFree(ScopeOf(r))
    /\ globalLock' = getGlobalLock(globalLock, r, ScopeOf(r))
    /\ req' = [req EXCEPT ![r].pc = "markStart", ![r].locked = TRUE]
    /\ UNCHANGED Stores

\* mutant: the handler returns on the timeout without writing a response
StartLockTimeoutSilent(r) ==
    /\ req[r].pc = "lock" /\ req[r].kind = "start"
    /\ ~LockFree(ScopeOf(r))
    /\ req' = [req EXCEPT ![r].pc = "done"]
    /\ UNCHANGED <<Stores, globalLock>>

\* getGlobalLock timed out
StartLockTimeout(r) ==
    /\ req[r].pc = "lock" /\ req[r].kind = "start"
    /\ ~LockFree(ScopeOf(r))
    /\ Return(r, req[r], ErrorResponse(StatusInternalServerError, "lock_timeout"))
    /\ UNCHANGED Stores

\* read the request body, then model.MarkStart
StartMarkStart(r) ==
    /\ req[r].pc = "markStart"
    /\ \E bodyErr \in BOOLEAN, err \in BOOLEAN :
         IF bodyErr
         THEN /\ Return(r, req[r], ErrorResponse(StatusBadRequest, "bad_body"))
              /\ UNCHANGED taskStatus
         ELSE IF err
         THEN /\ Return(r, req[r], ErrorResponse(StatusInternalServerError,
                                                 "mark_start_error"))
              /\ UNCHANGED taskStatus
         ELSE /\ taskStatus' = MarkStart(taskStatus, req[r].task)
              /\ req' = [req EXCEPT ![r].pc = "startFindHost",
                                    ![r].wrote = TRUE]
              /\ UNCHANGED globalLock
    /\ UNCHANGED <<hostStatus, hostRunning, hostRevision, hostPid,
                   builtRevision, taskQueue>>

StartFindHost(r) ==
    /\ req[r].pc = "startFindHost"
    /\ \/ Return(r, req[r], ErrorResponse(StatusInternalServerError,
                                          "host_lookup_error"))
       \/ /\ HostsRunning(req[r].task) = {}
          /\ Return(r, req[r], ErrorResponse(StatusInternalServerError,
                                             "host_not_found"))
       \/ \E h \in HostsRunning(req[r].task) :
            /\ req' = [req EXCEPT ![r].host = h, ![r].pc = "setPid"]
            /\ UNCHANGED globalLock
    /\ UNCHANGED Stores

\* h.SetTaskPid and the acknowledgement
StartSetPid(r) ==
    /\ req[r].pc = "setPid"
    /\ \E err \in BOOLEAN :
         IF err
         THEN /\ Return(r, req[r], ErrorResponse(StatusInternalServerError,
                                                 "set_pid_error"))
              /\ UNCHANGED hostPid
         ELSE /\ hostPid' = [hostPid EXCEPT ![req[r].host] = TRUE]
              /\ Return(r, [req[r] EXCEPT !.wrote = TRUE],
                        ErrorResponse(StatusOK, "started"))
    /\ UNCHANGED <<taskStatus, hostStatus, hostRunning, hostRevision,
                   builtRevision, taskQueue>>

\* ------------------------------------------------------ AgentHostGateway
\* mutant: Stop is only reached inside the error branch
StopOnFailureOnly(stopped, op, outcome) ==
    IF outcome = "ok" THEN stopped ELSE stopped \cup {op}
\* the deferred grip.Notice(cmd.Stop()): Stop is evaluated at the defer
\* statement, right after Run has returned, whatever Run returned
StopAfterRun(stopped, op, outcome) == stopped \cup {op}

\* mutant: a timed out command is not treated as a failure
RunFailedErrOnly(outcome) == outcome = "err"
\* err != nil after RunFunctionWithTimeout: a timeout or the command's error
RunFailed(outcome) == outcome # "ok"

\* mutant: prepRemoteHost returns the revision read after the transfer
prepRevisionPost(pre, post) == post
\* the revision prepRemoteHost returns: the one read before the transfer
prepRevision(pre, post) == pre

\* mutant: the secret is never generated
NeedsSecretNever(secret) == FALSE
\* hostObj.Secret == ""
NeedsSecret(secret) == secret = ""

\* mutant: the revision is written although the update reports an error
SetAgentRevisionAlways(hr, h, rev, err) == [hr EXCEPT ![h] = rev]
\* h.SetAgentRevision(rev): the host document's agent_revision
SetAgentRevision(hr, h, rev, err) ==
    IF err THEN hr ELSE [hr EXCEPT ![h] = rev]

\* agbh.GetAgentRevision(): the version file's content, "" with an error
GetAgentRevision(readErr) == IF readErr THEN "" ELSE builtRevision

\* the step op of a call started / ended with a result
StartOp(c, op) == [c EXCEPT !.ops = Append(@, [name |-> op, result |-> "running"])]
EndOp(c, outcome) == [c EXCEPT !.ops[Len(c.ops)].result = outcome]

\* StartAgentOnHost returns err; the locals end with the call
GatewayReturn(h, c, err) ==
    gateway' = [gateway EXCEPT ![h] =
                  [c EXCEPT !.pc = "done", !.err = err,
                            !.pre = IF err = "" THEN c.pre ELSE "",
                            !.post = IF err = "" THEN c.post ELSE ""]]

GatewayFrame ==
    UNCHANGED <<taskStatus, hostStatus, hostRunning, hostPid, taskQueue,
                globalLock, req>>

\* StartAgentOnHost is called with a copy of the host document: GetCloudHost,
\* GetSSHOptions, ParseSSHInfo, then the mkdir command starts to run
StartAgentOnHost(h) ==
    /\ gateway[h].pc \in {"idle", "done"}
    /\ \E cloudErr, sshErr, parseErr \in BOOLEAN :
         LET c == [IdleCall EXCEPT !.secret = hostSecret[h]]
         IN  IF cloudErr THEN GatewayReturn(h, c, "cloud_host")
             ELSE IF sshErr THEN GatewayReturn(h, c, "ssh_options")
             ELSE IF parseErr THEN GatewayReturn(h, c, "prep:ssh_info")
             ELSE gateway' = [gateway EXCEPT ![h] =
                                [StartOp(c, "mkdir") EXCEPT !.pc = "mkdir"]]
    /\ UNCHANGED <<hostSecret, hostRevision, builtRevision>>
    /\ GatewayFrame

\* prepRemoteHost: the mkdir command returned or timed out; on success the
\* executable's path is computed, the revision is read and the scp starts
MkdirReturns(h) ==
    /\ gateway[h].pc = "mkdir"
    /\ \E outcome \in Outcomes, subPathErr, readErr \in BOOLEAN :
         LET c0 == EndOp(gateway[h], outcome)
             c == [c0 EXCEPT !.stopped = StopAfterRun(@, "mkdir", outcome)]
         IN  IF RunFailed(outcome)
             THEN GatewayReturn(h, c, IF outcome = "timeout"
                                      THEN "prep:mkdir_timeout"
                                      ELSE "prep:mkdir_error")
             ELSE IF subPathErr THEN GatewayReturn(h, c, "prep:subpath")
             ELSE gateway' = [gateway EXCEPT ![h] =
                    [StartOp(c, "scp") EXCEPT
                       !.pc = "scp", !.pre = GetAgentRevision(readErr)]]
    /\ UNCHANGED <<hostSecret, hostRevision, builtRevision>>
    /\ GatewayFrame

\* prepRemoteHost: the scp returned or timed out; on success the revision is
\* read again and prepRemoteHost returns; StartAgentOnHost creates the secret
\* if hostObj has none and startAgentOnRemote starts the agent command
ScpReturns(h) ==
    /\ gateway[h].pc = "scp"
    /\ \E outcome \in Outcomes, readErr, secretErr, parseErr \in BOOLEAN,
          new \in HostSecrets :
         LET c0 == EndOp(gateway[h], outcome)
             c == [c0 EXCEPT !.stopped = StopAfterRun(@, "scp", outcome),
                             !.post = IF RunFailed(outcome) THEN ""
                                      ELSE GetAgentRevision(readErr)]
         IN  IF RunFailed(outcome)
             THEN /\ GatewayReturn(h, c, IF outcome = "timeout"
                                         THEN "prep:scp_timeout"
                                         ELSE "prep:scp_error")
                  /\ UNCHANGED hostSecret
             ELSE IF NeedsSecret(c.secret) /\ secretErr
             THEN /\ GatewayReturn(h, c, "create_secret")
                  /\ UNCHANGED hostSecret
             ELSE LET secret == IF NeedsSecret(c.secret) THEN new ELSE c.secret
                      cs == [c EXCEPT !.secret = secret]
                  IN  /\ hostSecret' = IF NeedsSecret(c.secret)
                                       THEN [hostSecret EXCEPT ![h] = new]
                                       ELSE hostSecret
                      /\ IF parseErr
                         THEN GatewayReturn(h, cs, "start:ssh_info")
                         ELSE gateway' = [gateway EXCEPT ![h] =
                                [StartOp(cs, "launch") EXCEPT
                                   !.pc = "launch", !.launchSecret = secret]]
    /\ UNCHANGED <<hostRevision, builtRevision>>
    /\ GatewayFrame

\* startAgentOnRemote: the agent command returned or timed out; on success
\* StartAgentOnHost records the revision on the host and returns nil
LaunchReturns(h) ==
    /\ gateway[h].pc = "launch"
    /\ \E outcome \in Outcomes, setErr \in BOOLEAN :
         LET c0 == EndOp(gateway[h], outcome)
             c == [c0 EXCEPT !.stopped = StopAfterRun(@, "launch", outcome)]
             cr == EndOp(StartOp(c, "record"), IF setErr THEN "err" ELSE "ok")
         IN  IF RunFailed(outcome)
             THEN /\ GatewayReturn(h, c, IF outcome = "timeout"
                                         THEN "start:timeout"
                                         ELSE "start:error")
                  /\ UNCHANGED hostRevision
             ELSE /\ hostRevision' = SetAgentRevision(hostRevision, h,
                                        prepRevision(c.pre, c.post), setErr)
                  /\ GatewayReturn(h, cr, IF setErr THEN "set_revision" ELSE "")
    /\ UNCHANGED <<hostSecret, builtRevision>>
    /\ GatewayFrame

\* mutant: a failed cost update is reported to the agent
updateTaskCostReported(r) ==
    /\ req[r].cost = "pending"
    /\ \E err \in BOOLEAN :
         req' = [req EXCEPT
           ![r] = IF err
                  THEN [WriteResponse(req[r],
                          ErrorResponse(StatusInternalServerError, "cost_error"))
                        EXCEPT !.cost = "failed"]
                  ELSE [req[r] EXCEPT !.cost = "ok"]]
    /\ UNCHANGED <<Stores, globalLock, hostSecret, gateway>>

\* as.updateTaskCost(t, host, finishTime) in its own goroutine: it ends with
\* or without an error, which is only logged
updateTaskCost(r) ==
    /\ req[r].cost = "pending"
    /\ \E err \in BOOLEAN :
         req' = [req EXCEPT ![r].cost = IF err THEN "failed" ELSE "ok"]
    /\ UNCHANGED <<Stores, globalLock, hostSecret, gateway>>

\* a new agent is built: the version file gets another revision
RebuildAgent ==
    /\ \E rev \in Revisions \ {builtRevision} : builtRevision' = rev
    /\ UNCHANGED <<hostSecret, hostRevision, gateway>>
    /\ GatewayFrame

GatewayNext ==
    \/ \E h \in Hosts :
         \/ StartAgentOnHost(h)
         \/ MkdirReturns(h)
         \/ ScpReturns(h)
         \/ LaunchReturns(h)
    \/ RebuildAgent

\* the task runner provisions the hosts of a healthy fleet
InitGateway ==
    /\ Init
    /\ \A h \in Hosts : hostStatus[h] = "running"
    /\ ~taskQueue.exists

SpecGateway == InitGateway /\ [][GatewayNext]_vars

\* ------------------------------------------------------------ specification
Next ==
    /\ \E r \in Requests :
         \/ ReceiveEnd(r)
         \/ EndAcquire(r)
         \/ EndLockTimeout(r)
         \/ EndMarkEnd(r)
         \/ EndSetActive(r)
         \/ TaskFinishedFindHost(r)
         \/ TaskFinishedRevision(r)
         \/ TaskFinishedDispatch(r)
         \/ TaskFinishedMarkHost(r)
         \/ ReceiveStart(r)
         \/ StartAcquire(r)
         \/ StartLockTimeout(r)
         \/ StartMarkStart(r)
         \/ StartFindHost(r)
         \/ StartSetPid(r)
    /\ UNCHANGED <<hostSecret, gateway>>

Spec == Init /\ [][Next]_vars

\* the handlers of a request take their steps; arrivals are not forced
Step(r) ==
    /\ \/ EndAcquire(r) \/ EndLockTimeout(r) \/ EndMarkEnd(r) \/ EndSetActive(r)
       \/ TaskFinishedFindHost(r) \/ TaskFinishedRevision(r)
       \/ TaskFinishedDispatch(r) \/ TaskFinishedMarkHost(r)
       \/ StartAcquire(r) \/ StartLockTimeout(r) \/ StartMarkStart(r)
       \/ StartFindHost(r) \/ StartSetPid(r)
    /\ UNCHANGED <<hostSecret, gateway>>

\* the configurations with a healthy fleet and a full queue
InitFair ==
    /\ Init
    /\ \A h \in Hosts : hostStatus[h] = "running"
    /\ taskQueue.exists /\ Len(taskQueue.items) = MaxQueue

\* every handler runs in its own goroutine and the wait for the lock is bounded
SpecFair ==
    InitFair /\ [][Next]_vars /\ \A r \in Requests : WF_vars(Step(r))

\* the requests together with the cost updates their handlers have spawned
NextCost ==
    \/ Next
    \/ \E r \in Requests : updateTaskCost(r)

SpecCost == InitFair /\ [][NextCost]_vars

\* ------------------------------------------------------------------ claims
Done(r) == req[r].pc = "done"
Responded(r) == Len(req[r].resps) >= 1
LastResp(r) == req[r].resps[Len(req[r].resps)]
EndDone(r) == Done(r) /\ req[r].kind = "end"
\* the request went through taskFinished and found the host of its task
FoundHost(r) == EndDone(r) /\ req[r].host # NoHost
IsRunNext(resp, x) ==
    /\ resp.code = StatusOK /\ resp.runNext
    /\ resp.taskId = x /\ resp.secret = Secret(x)
IsTerminate(resp) ==
    resp.code = StatusOK /\ ~resp.runNext /\ resp.taskId = NoTask
Callers(x) == {r \in Requests : req[r].next = x}
\* the causes of the errors taskFinished reports
TaskFinishedErrors ==
    {"host_lookup_error", "host_not_found", "agent_revision_error",
     "queue_lookup_error", "nil_queue", "dequeue_error"}

\* C1: a queued task that left the queue was handed to exactly one request,
\* which is the only one whose run-next response names it, and it is the
\* running task of at most one host; a task still queued was handed to nobody.
C1_DispatchedOnce ==
    \A x \in QueueTasks :
      /\ Cardinality(Callers(x)) =
           (IF taskStatus[x] = "undispatched" THEN 0 ELSE 1)
      /\ \A r \in Requests :
           (Done(r) /\ Responded(r) /\ LastResp(r).runNext
              /\ LastResp(r).taskId = x) => r \in Callers(x)
      /\ \A r \in Callers(x) : Done(r) => IsRunNext(LastResp(r), x)
      /\ Cardinality({h \in Hosts : hostRunning[h] = x}) <= 1
      /\ taskStatus[x] # "undispatched" =>
           ~(taskQueue.exists /\ \E i \in DOMAIN taskQueue.items :
                                   taskQueue.items[i] = x)

\* two reports of the same task from the same origin have been answered: one
\* with run-next, the other found no host running the task any more
C1_Witness ==
    \E a, b \in Requests :
      /\ a # b /\ EndDone(a) /\ EndDone(b)
      /\ req[a].origin = req[b].origin /\ req[a].task = req[b].task
      /\ req[a].next \in QueueTasks /\ IsRunNext(LastResp(a), req[a].next)
      /\ LastResp(b).msg = "host_not_found"

\* C2: a finished request whose host's revision differs from the built one
\* was told to terminate and its host runs nothing.
C2_StaleAgentTerminates ==
    \A r \in Requests :
      (FoundHost(r) /\ hostStatus[req[r].host] \notin Unhealthy
         /\ LastResp(r).msg # "agent_revision_error"
         /\ hostRevision[req[r].host] # builtRevision)
      => /\ IsTerminate(LastResp(r))
         /\ hostRunning[req[r].host] = NoTask

\* C3: a finished request whose host is decommissioned or quarantined was
\* told to terminate and its host runs nothing.
C3_UnhealthyTerminates ==
    \A r \in Requests :
      (FoundHost(r) /\ hostStatus[req[r].host] \in Unhealthy)
      => /\ IsTerminate(LastResp(r))
         /\ hostRunning[req[r].host] = NoTask

\* C4: a finished request on a healthy host with the current revision to which
\* the dispatcher gave task x answered run-next with x and its secret, its
\* host now runs x, and x is not in the queue.
C4_RunNext ==
    \A r \in Requests :
      (FoundHost(r) /\ req[r].next # NoTask)
      => /\ IsRunNext(LastResp(r), req[r].next)
         /\ hostRunning[req[r].host] = req[r].next
         /\ \A i \in DOMAIN taskQueue.items : taskQueue.items[i] # req[r].next

\* C5: a finished request to which the dispatcher gave no task, without an
\* error, answered with a success status and no run-next, and its host runs
\* nothing.
C5_NoNextTask ==
    \A r \in Requests :
      (FoundHost(r) /\ hostStatus[req[r].host] \notin Unhealthy
         /\ hostRevision[req[r].host] = builtRevision
         /\ req[r].next = NoTask
         /\ LastResp(r).msg \notin TaskFinishedErrors)
      => /\ IsTerminate(LastResp(r))
         /\ hostRunning[req[r].host] = NoTask

\* C6: once a report that persisted the status of its task has returned, no
\* host is recorded as running that task, unless the host could not be looked
\* up.
C6_RunningTaskCleared ==
    \A r \in Requests :
      (EndDone(r) /\ req[r].marked
         /\ LastResp(r).msg \notin {"host_lookup_error", "host_not_found"})
      => \A h \in Hosts : hostRunning[h] # req[r].task

\* C7: an error while locating the host, reading the agent revision or
\* querying the queue is answered with an internal-error status, with the
\* cause as message, and never with run-next.
C7_ErrorsAreInternal ==
    \A r \in Requests :
      (EndDone(r) /\ LastResp(r).msg \in TaskFinishedErrors)
      => /\ LastResp(r).code = StatusInternalServerError
         /\ ~LastResp(r).runNext

\* C8: a request whose wait for the lock timed out is answered with the
\* lock-timeout internal error and has changed no task, host or queue
\* document, before the attempt or after it; every change of a document is
\* made by a request that is past the acquisition.
C8_TimeoutState ==
    \A r \in Requests :
      /\ req[r].pc \in {"idle", "lock"} => ~req[r].wrote /\ ~req[r].marked
      /\ (\E i \in DOMAIN req[r].resps : req[r].resps[i].msg = "lock_timeout")
         => /\ Done(r)
            /\ LastResp(r) = ErrorResponse(StatusInternalServerError,
                                           "lock_timeout")
            /\ ~req[r].wrote /\ ~req[r].marked
            /\ req[r].host = NoHost /\ req[r].next = NoTask
C8_TimeoutStep ==
    /\ \A r \in Requests :
         (req[r].pc = "lock" /\ req'[r].pc # "lock" /\ ~req'[r].locked)
         => /\ UNCHANGED Stores
            /\ req'[r].pc = "done"
    /\ Stores' # Stores =>
         \E r \in Requests : /\ req[r].locked /\ req'[r].wrote
                             /\ req'[r] # req[r]
\* C8: both parts, in every state and in every step
C8_LockTimeoutMutatesNothing == [](C8_TimeoutState) /\ [][C8_TimeoutStep]_vars

\* a report timed out on the lock while the holder went on to change the task
C8_Witness ==
    \E a, b \in Requests :
      /\ a # b /\ Done(a) /\ LastResp(a).msg = "lock_timeout"
      /\ req[b].wrote /\ req[b].task = req[a].task
      /\ req[b].origin = req[a].origin

\* C9: a request that has returned holds no lock, whatever the path it
\* returned on, so a lock is held only by a request inside its protected
\* section and is free for the next request of the scope otherwise.
C9_LockReleased ==
    /\ \A r \in Requests : \A s \in Scopes :
         r \in globalLock[s] => (req[r].locked /\ ~Done(r) /\ s = ScopeOf(r))
    /\ \A s \in Scopes : Cardinality(globalLock[s]) <= 1
    /\ \A r \in Requests : req[r].locked => globalLock[ScopeOf(r)] = {r}

\* a request returned with an error from inside the protected section and a
\* later request of the same scope holds the lock
C9_Witness ==
    \E a, b \in Requests :
      /\ a # b /\ Done(a)
      /\ LastResp(a).msg \in {"mark_end_error", "mark_start_error",
                              "host_not_found", "deactivate_error"}
      /\ req[b].locked /\ ScopeOf(b) = <<req[a].origin, req[a].task>>

\* C10: under fair scheduling every request that arrived is answered: a
\* request waiting for the lock acquires it or gets the lock-timeout error.
C10_EveryRequestAnswered ==
    \A r \in Requests :
      (req[r].pc # "idle") ~> (Done(r) /\ Responded(r))

\* a request waited for a held lock and was answered with the timeout error
C10_Witness ==
    \E r \in Requests : Done(r) /\ LastResp(r).msg = "lock_timeout"

\* C11: a report whose status is none of succeeded, failed, undispatched is
\* answered with a client error by the step that reads it, which holds no
\* lock and changes no document; no such status gets past that step.
HasResp(r, m) == \E i \in DOMAIN req[r].resps : req[r].resps[i].msg = m
C11_RejectedState ==
    \A r \in Requests :
      /\ req[r].status \in EndStatuses \cup {""}
      /\ (req[r].kind = "end" /\ req[r].pc \in {"lock", "markEnd"})
           => req[r].status \in EndStatuses
      /\ HasResp(r, "invalid_status")
           => /\ Done(r)
              /\ req[r].resps = <<ErrorResponse(StatusBadRequest,
                                                "invalid_status")>>
              /\ ~req[r].wrote /\ ~req[r].marked
              /\ req[r].host = NoHost /\ req[r].next = NoTask
              /\ \A s \in Scopes : r \notin globalLock[s]
C11_RejectedStep ==
    \A r \in Requests :
      (HasResp(r, "invalid_status")' /\ ~HasResp(r, "invalid_status"))
      => /\ req[r].pc = "idle"
         /\ UNCHANGED <<Stores, globalLock>>
\* C11: both parts, in every state and in every step
C11_InvalidStatusRejected ==
    [](C11_RejectedState) /\ [][C11_RejectedStep]_vars

\* a report with an invalid status was rejected while another request held a
\* lock and had changed the task
C11_Witness ==
    \E a, b \in Requests :
      /\ a # b /\ HasResp(a, "invalid_status") /\ Done(a)
      /\ req[b].locked /\ req[b].wrote /\ req[b].task = req[a].task

\* ---------------------------------------------------- claims on the gateway
OpNames(h) == {gateway[h].ops[i].name : i \in DOMAIN gateway[h].ops}
Returned(h) == gateway[h].pc = "done"
Succeeded(h) == Returned(h) /\ gateway[h].err = ""
ProvisioningSteps == <<"mkdir", "scp", "launch", "record">>

\* C12: when the directory preparation times out, the call has returned the
\* error of the directory step and neither the transfer nor the launch (nor
\* any other step) was attempted.
C12_MkdirTimeoutStops ==
    \A h \in Hosts :
      (Len(gateway[h].ops) >= 1 /\ gateway[h].ops[1].result = "timeout")
      => /\ gateway[h].ops = <<[name |-> "mkdir", result |-> "timeout"]>>
         /\ Returned(h)
         /\ gateway[h].err = "prep:mkdir_timeout"
         /\ gateway[h].launchSecret = ""

\* the directory step of one host timed out while another host was launched
C12_Witness ==
    \E a, b \in Hosts :
      /\ a # b
      /\ Returned(a) /\ gateway[a].err = "prep:mkdir_timeout"
      /\ gateway[a].ops[1].result = "timeout"
      /\ "launch" \in OpNames(b)

\* C13: a successful call during which the revision changed between the read
\* before and the read after the transfer has recorded the revision read
\* before it; and while the transfer runs after such a change the call can
\* still go on to the launch.
C13_PreTransferRevisionRecorded ==
    \A h \in Hosts :
      /\ (Succeeded(h) /\ gateway[h].pre \in Revisions
            /\ gateway[h].post \in Revisions
            /\ gateway[h].pre # gateway[h].post)
           => hostRevision[h] = gateway[h].pre
      /\ (gateway[h].pc = "scp" /\ gateway[h].pre \in Revisions
            /\ gateway[h].pre # builtRevision)
           => ENABLED (ScpReturns(h) /\ gateway'[h].pc = "launch")

\* a call succeeded although the agent was rebuilt during the transfer, and
\* the host had another revision before
C13_Witness ==
    \E h \in Hosts :
      /\ Succeeded(h)
      /\ gateway[h].pre = "r2" /\ gateway[h].post = "r1"
      /\ hostRevision[h] = "r2"

\* C14: the steps of a call are a prefix of mkdir, scp, launch, record, each
\* at most once; a step that failed or timed out is the last one and the call
\* has returned an error; a call that returned nil ran all four; and the
\* host's revision changes only in the step of a call that returns nil.
C14_StepsState ==
    \A h \in Hosts :
      LET ops == gateway[h].ops
      IN  /\ Len(ops) <= Len(ProvisioningSteps)
          /\ \A i \in DOMAIN ops :
               /\ ops[i].name = ProvisioningSteps[i]
               /\ i < Len(ops) => ops[i].result = "ok"
               /\ ops[i].result \in {"err", "timeout"}
                    => Returned(h) /\ gateway[h].err # ""
          /\ Succeeded(h)
               => /\ Len(ops) = Len(ProvisioningSteps)
                  /\ ops[Len(ops)].result = "ok"
C14_StepsStep ==
    \A h \in Hosts :
      hostRevision'[h] # hostRevision[h]
      => /\ gateway[h].pc = "launch"
         /\ gateway'[h].pc = "done" /\ gateway'[h].err = ""
\* C14: both parts, in every state and in every step
C14_StepsInOrderOnce ==
    [](C14_StepsState) /\ [][C14_StepsStep]_vars

\* recording the revision failed on a host that would have got another
\* revision, and the host kept the one it had
C14_Witness ==
    \E h \in Hosts :
      /\ Returned(h) /\ gateway[h].err = "set_revision"
      /\ Len(gateway[h].ops) = 4
      /\ hostRevision[h] = "r1" /\ builtRevision = "r2"
      /\ \E g \in Hosts : g # h /\ Succeeded(g) /\ hostRevision[g] = "r2"

\* C15: the agent is launched with a non-empty secret that is the one
\* persisted on the host; when creating the secret failed there was no launch;
\* and a secret that a host has is never replaced.
C15_SecretState ==
    \A h \in Hosts :
      /\ "launch" \in OpNames(h)
           => /\ gateway[h].launchSecret \in HostSecrets
              /\ hostSecret[h] = gateway[h].launchSecret
      /\ gateway[h].err = "create_secret"
           => "launch" \notin OpNames(h) /\ hostSecret[h] = ""
C15_SecretStep ==
    \A h \in Hosts :
      /\ hostSecret[h] # "" => hostSecret'[h] = hostSecret[h]
      /\ hostSecret'[h] # hostSecret[h]
           => gateway[h].pc = "scp" /\ gateway[h].secret = ""
\* C15: both parts, in every state and in every step
C15_SecretBeforeLaunch ==
    [](C15_SecretState) /\ [][C15_SecretStep]_vars

\* one host was launched with the secret created for it, for another the
\* creation failed
C15_Witness ==
    \E a, b \in Hosts :
      /\ "launch" \in OpNames(a) /\ hostSecret[a] = "s2"
      /\ gateway[b].err = "create_secret" /\ hostSecret[b] = ""

\* C16: every remote command whose Run has returned or timed out was stopped,
\* and after the call has returned every command it started was stopped.
C16_EveryOperationStopped ==
    \A h \in Hosts :
      /\ gateway[h].stopped \subseteq OpNames(h)
      /\ \A i \in DOMAIN gateway[h].ops :
           (gateway[h].ops[i].name \in RemoteOps
              /\ gateway[h].ops[i].result # "running")
           => gateway[h].ops[i].name \in gateway[h].stopped
      /\ Returned(h) => OpNames(h) \cap RemoteOps \subseteq gateway[h].stopped

\* one call returned nil with its three commands stopped, another returned
\* after its transfer timed out
C16_Witness ==
    \E a, b \in Hosts :
      /\ Succeeded(a) /\ gateway[a].stopped = RemoteOps
      /\ Returned(b) /\ gateway[b].err = "prep:scp_timeout"
      /\ gateway[b].stopped = {"mkdir", "scp"}

\* --------------------------------------------------- claims, second part
\* position of a status on undispatched -> dispatched -> started -> finished
StatusRank(st) ==
    CASE st = "undispatched" -> 0
      [] st = "dispatched" -> 1
      [] st = "started" -> 2
      [] st \in Terminal -> 3
      [] OTHER -> 4

\* C17: a step changes a task's status only from a status that is neither
\* succeeded nor failed, and then either forward along undispatched,
\* dispatched, started, succeeded or failed, or to inactive; so no report,
\* duplicate or not, changes the status of a finished task.
C17_StatusStep ==
    \A t \in Tasks :
      taskStatus'[t] # taskStatus[t]
      => /\ taskStatus[t] \notin Terminal
         /\ \/ taskStatus'[t] = "inactive"
            \/ /\ taskStatus'[t] # "inactive" /\ taskStatus[t] # "inactive"
               /\ StatusRank(taskStatus'[t]) > StatusRank(taskStatus[t])
C18_CostState ==
    \A r \in Requests :
      /\ req[r].cost # "none" => req[r].kind = "end" /\ req[r].host # NoHost
      /\ req[r].pc \in {"revision", "dispatch", "markHost"} => ENABLED Step(r)
C18_CostStep ==
    \A r \in Requests :
      (req[r].cost = "pending" /\ req'[r].cost # "pending")
      => /\ req' = [req EXCEPT ![r].cost = req'[r].cost]
         /\ UNCHANGED <<Stores, globalLock>>
\* C18: both parts, in every state and in every step
C18_CostUpdateDecoupled ==
    [](C18_CostState) /\ [][C18_CostStep]_vars

\* one request was answered with the next task while its cost update had not
\* run, another was answered after its cost update had failed
C18_Witness ==
    \E a, b \in Requests :
      /\ EndDone(a) /\ req[a].cost = "pending" /\ LastResp(a).runNext
      /\ EndDone(b) /\ req[b].cost = "failed" /\ LastResp(b).runNext
      /\ Len(req[b].resps) = 1

\* C19: in the step in which a task-finished request is answered with
\* run-next naming task x, the record of the request's host shows x as its
\* running task.
C19_RunNextStep ==
    \A r \in Requests :
      LET q == req'[r]
      IN  (req[r].pc # "done" /\ q.pc = "done" /\ q.kind = "end"
             /\ Len(q.resps) >= 1 /\ q.resps[Len(q.resps)].runNext)
          => hostRunning'[q.host] = q.resps[Len(q.resps)].taskId
\* C19: in every step
C19_RunNextOnlyIfSwitched == [][C19_RunNextStep]_vars

\* C20: the queue changes only in the dispatch step of a request that takes
\* the head of the queue and prepares the run-next response naming it; that
\* response is the one the request is answered with; and a request answered
\* otherwise has taken nothing from the queue.
C20_QueueState ==
    \A r \in Requests :
      /\ (req[r].pc = "markHost" /\ req[r].next # NoTask)
           => IsRunNext(req[r].out, req[r].next)
      /\ (EndDone(r) /\ req[r].next # NoTask)
           => IsRunNext(LastResp(r), req[r].next)
      /\ (EndDone(r) /\ ~LastResp(r).runNext) => req[r].next = NoTask
      /\ req[r].next # NoTask
           => \A i \in DOMAIN taskQueue.items : taskQueue.items[i] # req[r].next
C20_QueueStep ==
    taskQueue' # taskQueue
    => /\ taskQueue.exists /\ taskQueue'.exists /\ taskQueue.items # <<>>
       /\ taskQueue'.items = Tail(taskQueue.items)
       /\ \E r \in Requests :
            /\ req[r].pc = "dispatch" /\ req'[r].pc = "markHost"
            /\ req'[r].next = Head(taskQueue.items)
            /\ IsRunNext(req'[r].out, Head(taskQueue.items))
\* C20: both parts, in every state and in every step
C20_DequeueOnlyForRunNext ==
    [](C20_QueueState) /\ [][C20_QueueStep]_vars

\* one request was answered with the first task of the queue, another one was
\* answered with the error of a failed dispatch and the second task is still
\* in the queue
C20_Witness ==
    \E a, b \in Requests :
      /\ EndDone(a) /\ IsRunNext(LastResp(a), "Q1")
      /\ EndDone(b) /\ LastResp(b).msg = "dequeue_error"
      /\ taskQueue.items = <<"Q2">>

\* --------------------------------------------------- claims, third part
IsError(resp) == resp.code >= StatusBadRequest
HasErrorResp(r) == \E i \in DOMAIN req[r].resps : IsError(req[r].resps[i])

\* C21: a task-finished request never has more than one response, has exactly
\* one when its handler has returned, and its handler has returned as soon as
\* an error response is written.
C21_ExactlyOneResponse ==
    \A r \in Requests :
      req[r].kind = "end"
      => /\ Len(req[r].resps) <= 1
         /\ Done(r) => Len(req[r].resps) = 1
         /\ HasErrorResp(r) => Done(r)

\* C22: when the only request served so far is a task-started request that
\* was answered with an error, every task has the status and every host the
\* pid and running task it had before the request.
C22_StartErrorChangesNothing ==
    \A r \in Requests :
      (Done(r) /\ req[r].kind = "start" /\ IsError(LastResp(r))
         /\ \A o \in Requests \ {r} : req[o].pc = "idle")
      => /\ taskStatus["T1"] = "dispatched" /\ taskStatus["T2"] = "started"
         /\ \A h \in Hosts : ~hostPid[h]
         /\ hostRunning = [h \in Hosts |-> IF h = "H1" THEN "T1" ELSE "T2"]

\* C23: a call that returned nil has read a revision from the version file
\* before the transfer and has recorded that revision on the host.
C23_RecordedRevisionWasRead ==
    \A h \in Hosts :
      Succeeded(h)
      => /\ gateway[h].pre \in Revisions
         /\ hostRevision[h] = gateway[h].pre

====
